---- MODULE Spec2Model ----
(***************************************************************************)
(* A model of repo.py, the Sublime Text plugin that runs the "repo" tool:  *)
(* the repo-root locator and its cache, the lock-wait gate of run_command, *)
(* the CommandThread worker, the UI-thread callbacks, the output panel and *)
(* the reload of the active view after a command.                          *)
(***************************************************************************)
EXTENDS Integers, Sequences, FiniteSets, TLC

\* ------------------------------------------------------------------ bounds
\* Depth of the deepest directory of the modelled tree (0 is "/").
MaxDepth == 1
\* Last value of the clock (seconds, as time.time() reads them).
MaxTime == 6
\* Number of root lookups recorded by the is_enabled checks.
MaxLookups == 2
\* Number of commands the user issues.
MaxCommands == 1
\* Number of CommandThread objects ever started.
MaxThreads == 2

\* ------------------------------------------------------- program constants
\* repo_root: 'expires': time.time() + 5
TTL == 5
\* The empty directory string '' (get_working_dir with no folder open).
EmptyDir == -1
\* repo_root's retval = False.
NoRoot == -2

\* Directories are a chain "/", "/a", "/a/b", ... named by their depth.
Dirs == 0..MaxDepth
LookupDirs == Dirs \cup {EmptyDir}

\* os.path.realpath(os.path.join(directory, os.path.pardir)); "/.." is "/".
Parent(d) == IF d = 0 THEN 0 ELSE d - 1

VARIABLES
  now,              \* time.time()
  repoMarker,       \* the directories d for which <d>/.repo exists on disk
  repo_root_cache,  \* the global dict: leaf_dir -> [retval, expires]
  walkLog,          \* history: leaf_dir -> when and what its latest walk found
  lastLookup,       \* history: what the latest is_enabled lookup saw and did
  dirExists,        \* the directories that exist on disk
  indexLock,        \* the directories d for which <d>/.repo/index.lock exists
  cwd,              \* the process's current directory (os.chdir)
  REPO,             \* the module global REPO = find_repo(), set at load time
  viewDirty,        \* active_view().is_dirty()
  view,             \* the active view: file, loading, viewport, pending restores
  commands_working, \* the global in-flight counter
  cmds,             \* history: one record per command the user issued
  threads,          \* the CommandThread objects, in the order they were started
  timers,           \* pending sublime.set_timeout(..., 50) polls of do_when
  uiQueue,          \* pending sublime.set_timeout(..., 0) tasks of main_thread
  panel             \* the "repo" output panel of the window

rootVars == <<now, repoMarker, repo_root_cache, walkLog, lastLookup>>
diskVars == <<dirExists, indexLock>>
cmdVars == <<cwd, REPO, viewDirty, view, commands_working, cmds, threads,
             timers, uiQueue, panel>>
vars == <<now, repoMarker, repo_root_cache, walkLog, lastLookup, dirExists,
          indexLock, cwd, REPO, viewDirty, view, commands_working, cmds,
          threads, timers, uiQueue, panel>>

\* ------------------------------------------------------------- repo_root
\* Walk, were the test for the filesystem root made before the test for the
\* marker: a marker in "/" is never seen.
RECURSIVE Walk_RootTestFirst(_)
Walk_RootTestFirst(directory) ==
  IF directory = EmptyDir THEN NoRoot
  ELSE IF Parent(directory) = directory THEN NoRoot
  ELSE IF directory \in repoMarker THEN directory
  ELSE Walk_RootTestFirst(Parent(directory))

\* The while loop of repo_root: the nearest directory at or above
\* `directory` that holds the marker, False at the filesystem root.
RECURSIVE Walk(_)
Walk(directory) ==
  IF directory = EmptyDir THEN NoRoot
  ELSE IF directory \in repoMarker THEN directory
  ELSE IF Parent(directory) = directory THEN NoRoot
  ELSE Walk(Parent(directory))

\* CacheHit, were a cached False not served from the cache.
CacheHit_PositiveOnly(leaf_dir) ==
  /\ leaf_dir \in DOMAIN repo_root_cache
  /\ repo_root_cache[leaf_dir].expires > now
  /\ repo_root_cache[leaf_dir].retval # NoRoot

\* leaf_dir in repo_root_cache and repo_root_cache[leaf_dir]['expires'] > time.time()
CacheHit(leaf_dir) ==
  /\ leaf_dir \in DOMAIN repo_root_cache
  /\ repo_root_cache[leaf_dir].expires > now

\* The entry repo_root stores after a walk.
CacheEntry(retval) == [retval |-> retval, expires |-> now + TTL]

\* RepoRoot, were a cache hit to renew the entry's expiry.
RepoRoot_HitRenews(directory) ==
  IF CacheHit(directory)
  THEN [retval |-> repo_root_cache[directory].retval,
        cache  |-> [repo_root_cache EXCEPT
                      ![directory] = CacheEntry(repo_root_cache[directory].retval)],
        walked |-> FALSE]
  ELSE [retval |-> Walk(directory),
        cache  |-> [k \in DOMAIN repo_root_cache \cup {directory} |->
                      IF k = directory THEN CacheEntry(Walk(directory))
                      ELSE repo_root_cache[k]],
        walked |-> TRUE]

\* repo_root(directory): the value returned, the cache afterwards, and
\* whether the filesystem was consulted.
RepoRoot(directory) ==
  IF CacheHit(directory)
  THEN [retval |-> repo_root_cache[directory].retval,
        cache  |-> repo_root_cache,
        walked |-> FALSE]
  ELSE [retval |-> Walk(directory),
        cache  |-> [k \in DOMAIN repo_root_cache \cup {directory} |->
                      IF k = directory THEN CacheEntry(Walk(directory))
                      ELSE repo_root_cache[k]],
        walked |-> TRUE]

\* The history a call of repo_root(directory) leaves: the walk log entry
\* is written only when the loop over the disk ran.
WalkLogAfter(directory) ==
  IF RepoRoot(directory).walked
  THEN [k \in DOMAIN walkLog \cup {directory} |->
          IF k = directory THEN [at |-> now, val |-> Walk(directory)]
          ELSE walkLog[k]]
  ELSE walkLog

\* ------------------------------------------------------------------ Init
\* The active view before any command has completed: a file on disk, shown
\* from its top, not loading; no viewport restore is pending.  reverts, restores
\* and the three flags are history.
NoView ==
  [file |-> TRUE, loading |-> FALSE, position |-> 0, pending |-> << >>,
   reverts |-> 0, restores |-> 0, dirtyRevert |-> FALSE,
   earlyRestore |-> FALSE, waited |-> FALSE]

\* The "repo" output panel before its first use: empty and hidden.  content
\* is the sequence of the texts inserted, first in the buffer first; called
\* and last are history: whether panel() ran, and with what.
NoPanel ==
  [content |-> << >>, read_only |-> FALSE, visible |-> FALSE,
   called |-> FALSE, last |-> ""]

NoLookup ==
  [n |-> 0, dir |-> EmptyDir, retval |-> NoRoot, walked |-> FALSE, at |-> 0,
   hadEntry |-> FALSE, prevRetval |-> NoRoot, prevExpires |-> 0,
   prevWalkAt |-> 0, newExpires |-> 0, truth |-> NoRoot, walkAt |-> 0,
   walkVal |-> NoRoot]

InitRoot ==
  /\ now = 0
  /\ repoMarker \in SUBSET Dirs
  /\ repo_root_cache = << >>
  /\ walkLog = << >>
  /\ lastLookup = NoLookup
  /\ dirExists = Dirs
  /\ indexLock = {}
  /\ cwd = 0
  /\ REPO = ""
  /\ viewDirty = FALSE
  /\ view = NoView
  /\ commands_working = 0
  /\ cmds = << >>
  /\ threads = << >>
  /\ timers = << >>
  /\ uiQueue = << >>
  /\ panel = NoPanel

\* --------------------------------------------------------------- actions
\* The clock advances.
Tick ==
  /\ now < MaxTime
  /\ now' = now + 1
  /\ UNCHANGED <<repoMarker, repo_root_cache, walkLog, lastLookup, diskVars, cmdVars>>

\* Somebody creates <d>/.repo (repo init) or removes it, index.lock included.
CreateMarker(d) ==
  /\ d \in dirExists
  /\ d \notin repoMarker
  /\ repoMarker' = repoMarker \cup {d}
  /\ UNCHANGED <<now, repo_root_cache, walkLog, lastLookup, diskVars, cmdVars>>

RemoveMarker(d) ==
  /\ d \in repoMarker
  /\ repoMarker' = repoMarker \ {d}
  /\ indexLock' = indexLock \ {d}
  /\ UNCHANGED <<now, repo_root_cache, walkLog, lastLookup, dirExists, cmdVars>>

\* is_enabled: bool(repo_root(self.get_working_dir())).  The history
\* record keeps what the call found in the cache, what it returned and
\* stored, what a walk of the disk gives at this moment, and when the value
\* it returned was computed from the disk.
IsEnabled(d) ==
  /\ lastLookup.n < MaxLookups
  /\ LET r == RepoRoot(d)
         had == d \in DOMAIN repo_root_cache
         log == WalkLogAfter(d)
         logged == d \in DOMAIN log
     IN /\ repo_root_cache' = r.cache
        /\ walkLog' = log
        /\ lastLookup' =
             [n |-> lastLookup.n + 1, dir |-> d, retval |-> r.retval,
              walked |-> r.walked, at |-> now,
              hadEntry |-> had,
              prevRetval |-> IF had THEN repo_root_cache[d].retval ELSE NoRoot,
              prevExpires |-> IF had THEN repo_root_cache[d].expires ELSE 0,
              prevWalkAt |-> IF d \in DOMAIN walkLog THEN walkLog[d].at ELSE 0,
              newExpires |-> IF d \in DOMAIN r.cache THEN r.cache[d].expires ELSE 0,
              truth |-> Walk(d),
              walkAt |-> IF logged THEN log[d].at ELSE 0 - (TTL + 1),
              walkVal |-> IF logged THEN log[d].val ELSE NoRoot]
  /\ UNCHANGED <<now, repoMarker, diskVars, cmdVars>>

NextRoot ==
  \/ Tick
  \/ \E d \in Dirs : CreateMarker(d)
  \/ \E d \in Dirs : RemoveMarker(d)
  \/ \E d \in LookupDirs : IsEnabled(d)

SpecRoot == InitRoot /\ [][NextRoot]_vars

\* ---------------------------------------------------------- CommandThread
\* What Popen can do with argv: start the process, or raise OSError with
\* errno 2 (no such file) or another errno (EACCES, ...).
PopenOutcomes == {"ok", "ENOENT", "EACCES"}

\* What the process can write to its stdout: nothing, bytes that are valid
\* UTF-8, or bytes that are not (valid only in an 8-bit encoding).
OutputBytes == {"", "utf8_bytes", "latin_bytes"}

\* The fallback_encoding run_command passes on from the view's settings:
\* unset, or the name of a codec.  CommandThread.run reads it once, when it
\* decodes, so the model draws it there.
FallbackEncodings == {"", "latin-1"}

\* os.path.isdir(self.working_dir); isdir('') is False.
IsDir(d) == d \in dirExists

\* CommandThread.__init__
CommandThread(c, command0, args, on_done, working_dir, locked) ==
  [cmd |-> c, command0 |-> command0, args |-> args, on_done |-> on_done,
   working_dir |-> working_dir,
   pc |-> "start", callback |-> on_done, output |-> "", reg |-> 0,
   \* history
   lockAtStart |-> locked, aborted |-> FALSE, procCwd |-> EmptyDir,
   launch |-> "none", raised |-> FALSE, incs |-> 0, decs |-> 0, posted |-> 0,
   dialogs |-> 0, results |-> 0, ranOn |-> "none"]

\* MakeTextSafeish, were the decode error not caught: bytes that are not
\* UTF-8 raise, whatever the fallback encoding.
MakeTextSafeish_NoFallback(text, fallback_encoding) ==
  IF text = "utf8_bytes" THEN [raised |-> FALSE, unitext |-> "utf8_text"]
  ELSE [raised |-> TRUE, unitext |-> ""]

\* _make_text_safeish(text, fallback_encoding): decode as UTF-8, on a
\* decode error decode with the fallback encoding.  text is '' (a str, which
\* has no decode method) when the process wrote nothing; an unset fallback
\* names no codec.  raised: an exception leaves the function.
MakeTextSafeish(text, fallback_encoding) ==
  IF text = "" THEN [raised |-> TRUE, unitext |-> ""]
  ELSE IF text = "utf8_bytes" THEN [raised |-> FALSE, unitext |-> "utf8_text"]
  ELSE IF fallback_encoding = "" THEN [raised |-> TRUE, unitext |-> ""]
  ELSE [raised |-> FALSE, unitext |-> "fallback_text"]

\* OnOSError, were the dialog chosen for errno 2 alone.
OnOSError_DialogForENOENT(t, errno) ==
  [t EXCEPT !.callback = IF errno = "ENOENT" THEN "error_message" ELSE @,
            !.output = IF errno = "ENOENT" THEN "binary_not_found_message"
                       ELSE "strerror",
            !.pc = "dec_load"]

\* OnOSError, were the handler to leave callback = self.on_done.
OnOSError_KeepsCallback(t, errno) ==
  [t EXCEPT !.output = IF errno = "ENOENT" THEN "binary_not_found_message"
                       ELSE "strerror",
            !.pc = "dec_load"]

\* OnOSError, were the decrement the last statement of the try block
\* instead of the first of the finally block.
OnOSError_SkipsDecrement(t, errno) ==
  [t EXCEPT !.callback = "error_message",
            !.output = IF errno = "ENOENT" THEN "binary_not_found_message"
                       ELSE "strerror",
            !.pc = "post"]

\* except OSError as e: the handler's assignments, then the finally block.
OnOSError(t, errno) ==
  [t EXCEPT !.callback = "error_message",
            !.output = IF errno = "ENOENT" THEN "binary_not_found_message"
                       ELSE "strerror",
            !.pc = "dec_load"]

\* OnExit, were there no finally block: an exception that no handler catches
\* ends the thread at once.
OnExit_NoFinally(t, bytes, fallback_encoding) ==
  LET d == MakeTextSafeish(bytes, fallback_encoding)
  IN [t EXCEPT !.output = IF d.raised THEN bytes ELSE d.unitext,
               !.raised = d.raised,
               !.pc = IF d.raised THEN "done" ELSE "dec_load"]

\* The end of the try block: the decoded output, or the exception that
\* _make_text_safeish raised leaves output as it was; then the finally block.
OnExit(t, bytes, fallback_encoding) ==
  LET d == MakeTextSafeish(bytes, fallback_encoding)
  IN [t EXCEPT !.output = IF d.raised THEN bytes ELSE d.unitext,
               !.raised = d.raised,
               !.pc = "dec_load"]

\* CheckWorkingDir, were the check missing.
CheckWorkingDir_NoCheck(t) == [t EXCEPT !.pc = "inc_load"]

\* if not os.path.isdir(self.working_dir): return
CheckWorkingDir(t) ==
  IF IsDir(t.working_dir) THEN [t EXCEPT !.pc = "inc_load"]
  ELSE [t EXCEPT !.pc = "done"]

\* The effect of a completion callback being called by `who`.
Delivered(ths, task, who) ==
  [ths EXCEPT ![task.tid] =
     [@ EXCEPT !.ranOn = IF @ \in {"none", who} THEN who ELSE "both",
               !.dialogs = IF task.callback = "error_message" THEN @ + 1 ELSE @,
               !.results = IF task.callback # "error_message" THEN @ + 1 ELSE @]]

\* MainThread, were the callback called where main_thread is called.
MainThread_Direct(ths, task) ==
  [queue |-> uiQueue, threads |-> Delivered(ths, task, "worker")]

\* main_thread(callback, *args): sublime.set_timeout(partial(callback, ...), 0)
MainThread(ths, task) == [queue |-> Append(uiQueue, task), threads |-> ths]

Running(i) == i \in 1..Len(threads)

ThreadStart(i) ==
  /\ Running(i) /\ threads[i].pc = "start"
  /\ threads' = [threads EXCEPT ![i] =
                   [CheckWorkingDir(@) EXCEPT
                      !.aborted = threads[i].working_dir \notin dirExists]]
  /\ UNCHANGED <<rootVars, diskVars, cwd, REPO, viewDirty, view,
                 commands_working, cmds, timers, uiQueue, panel>>

\* commands_working = commands_working + 1: the load ...
ThreadIncLoad(i) ==
  /\ Running(i) /\ threads[i].pc = "inc_load"
  /\ threads' = [threads EXCEPT ![i].reg = commands_working,
                                ![i].pc = "inc_store"]
  /\ UNCHANGED <<rootVars, diskVars, cwd, REPO, viewDirty, view,
                 commands_working, cmds, timers, uiQueue, panel>>

\* ... and the store.
ThreadIncStore(i) ==
  /\ Running(i) /\ threads[i].pc = "inc_store"
  /\ commands_working' = threads[i].reg + 1
  /\ threads' = [threads EXCEPT ![i].incs = @ + 1, ![i].pc = "chdir"]
  /\ UNCHANGED <<rootVars, diskVars, cwd, REPO, viewDirty, view, cmds, timers,
                 uiQueue, panel>>

\* os.chdir(self.working_dir): raises OSError(ENOENT) if it is gone by now.
ThreadChdir(i) ==
  /\ Running(i) /\ threads[i].pc = "chdir"
  /\ IF IsDir(threads[i].working_dir)
     THEN /\ cwd' = threads[i].working_dir
          /\ threads' = [threads EXCEPT ![i].pc = "popen"]
     ELSE /\ cwd' = cwd
          /\ threads' = [threads EXCEPT ![i] =
                           [OnOSError(@, "ENOENT") EXCEPT !.launch = "chdir"]]
  /\ UNCHANGED <<rootVars, diskVars, REPO, viewDirty, view, commands_working,
                 cmds, timers, uiQueue, panel>>

\* subprocess.Popen(self.command, ...): the child inherits the process's
\* current directory.
ThreadPopen(i, outcome) ==
  /\ Running(i) /\ threads[i].pc = "popen"
  /\ threads' = [threads EXCEPT ![i] =
                   IF outcome = "ok"
                   THEN [@ EXCEPT !.procCwd = cwd, !.launch = "ok",
                                  !.pc = "communicate"]
                   ELSE [OnOSError(@, outcome) EXCEPT !.launch = outcome]]
  /\ UNCHANGED <<rootVars, diskVars, cwd, REPO, viewDirty, view,
                 commands_working, cmds, timers, uiQueue, panel>>

\* proc.communicate(self.stdin)[0] returns when the process has exited.
ThreadCommunicate(i, bytes, fallback_encoding) ==
  /\ Running(i) /\ threads[i].pc = "communicate"
  /\ threads' = [threads EXCEPT ![i] = OnExit(@, bytes, fallback_encoding)]
  /\ UNCHANGED <<rootVars, diskVars, cwd, REPO, viewDirty, view,
                 commands_working, cmds, timers, uiQueue, panel>>

\* finally: commands_working = commands_working - 1: the load ...
ThreadDecLoad(i) ==
  /\ Running(i) /\ threads[i].pc = "dec_load"
  /\ threads' = [threads EXCEPT ![i].reg = commands_working,
                                ![i].pc = "dec_store"]
  /\ UNCHANGED <<rootVars, diskVars, cwd, REPO, viewDirty, view,
                 commands_working, cmds, timers, uiQueue, panel>>

\* ... and the store.
ThreadDecStore(i) ==
  /\ Running(i) /\ threads[i].pc = "dec_store"
  /\ commands_working' = threads[i].reg - 1
  /\ threads' = [threads EXCEPT ![i].decs = @ + 1, ![i].pc = "post"]
  /\ UNCHANGED <<rootVars, diskVars, cwd, REPO, viewDirty, view, cmds, timers,
                 uiQueue, panel>>

\* finally: main_thread(callback, output, **self.kwargs)
ThreadPost(i) ==
  /\ Running(i) /\ threads[i].pc = "post"
  /\ LET t == threads[i]
         done == [threads EXCEPT ![i].posted = @ + 1, ![i].pc = "done"]
         r == MainThread(done, [tid |-> i, callback |-> t.callback,
                                output |-> t.output])
     IN /\ uiQueue' = r.queue
        /\ threads' = r.threads
  /\ UNCHANGED <<rootVars, diskVars, cwd, REPO, viewDirty, view, commands_working,
                 cmds, timers, panel>>

\* ------------------------------------------------------------ UI thread
\* The completion callback of the commands modelled (sync, rebase): none is
\* passed, so run_command takes self.generic_done.
Callbacks == {"generic_done"}

\* find_repo(): the path of the executable, or None.
RepoPaths == {"", "/usr/local/bin/repo"}

\* The settings run_command loads on every call: the repo_command override
\* (unset or a path) and save_first.
Settings == [repo_command : {"", "/opt/repo"}, save_first : BOOLEAN]

\* Substitute, were the path find_repo resolved not put in: only a
\* configured override replaces the bare name.
Substitute_OverrideOnly(command0, s) ==
  IF command0 = "repo" /\ s.repo_command # "" THEN s.repo_command
  ELSE command0

\* if command[0] == 'repo': the configured override, else the path that
\* find_repo resolved at load time, else the bare name.
Substitute(command0, s) ==
  IF command0 = "repo"
  THEN IF s.repo_command # "" THEN s.repo_command
       ELSE IF REPO # "" THEN REPO
       ELSE command0
  ELSE command0

\* wait_for_lock and root and os.path.exists(<root>/.repo/index.lock);
\* every caller leaves wait_for_lock at its default, True.
LockPresent(root) == root # NoRoot /\ root \in indexLock

\* The conditional run_command hands to do_when:
\* not os.path.exists(<root>/.repo/index.lock)
LockGone(root) == root \notin indexLock

\* DoWhenSchedule, were the poll not scheduled again: the wait gives up.
DoWhenSchedule_GivesUp(pending, tm) == pending

\* do_when(conditional, callback, ...) as run_command calls it, the
\* conditional being false: sublime.set_timeout(partial(do_when, ...), 50).
DoWhenSchedule(pending, tm) == Append(pending, tm)

\* view.set_read_only(flag)
SetReadOnly(v, flag) == [v EXCEPT !.read_only = flag]

\* RepoScratchOutput, were the clear argument ignored: the text is inserted
\* in front of what the view holds.
RepoScratchOutput_NeverClears(v, output, clear) ==
  IF v.read_only THEN v
  ELSE [v EXCEPT !.content = <<output>> \o @]

\* RepoScratchOutputCommand.run(edit, output, clear): erase the whole buffer
\* if clear, then insert output at offset 0.  A read-only view takes no
\* edit.
RepoScratchOutput(v, output, clear) ==
  IF v.read_only THEN v
  ELSE [v EXCEPT !.content = <<output>> \o (IF clear THEN << >> ELSE @)]

\* window.run_command("show_panel", {"panel": "output.repo"})
ShowPanel(v) == [v EXCEPT !.visible = TRUE]

\* RepoCommand.panel(output): the panel of the window is made writable,
\* overwritten (_output_to_view with clear=True), made read-only and shown.
Panel(output) ==
  LET written == RepoScratchOutput(SetReadOnly(panel, FALSE), output, TRUE)
  IN [ShowPanel(SetReadOnly(written, TRUE)) EXCEPT
        !.called = TRUE, !.last = output]

\* generic_done(result) of a command with may_change_files = False:
\* if not result.strip(): return; self.panel(result)
GenericDone(result) == IF result = "" THEN panel ELSE Panel(result)

\* The viewport positions of the active view.
Positions == {0, 1}

\* The text generic_done puts in place of the result when the view is dirty.
DirtyWarning == "WARNING: Current view is dirty."

\* DoWhen, were the callback's call not returned from: the next poll is
\* scheduled whether or not the callback ran.
DoWhen_CallsAndPolls(conditional) == [call |-> conditional, poll |-> TRUE]

\* do_when(conditional, callback): the callback is called if the
\* conditional holds, and the next poll is scheduled only if it does not.
DoWhen(conditional) == [call |-> conditional, poll |-> ~conditional]

\* view.set_viewport_position(position, False)
SetViewportPosition(v, position) ==
  [v EXCEPT !.position = position, !.restores = @ + 1,
            !.earlyRestore = @ \/ v.loading]

\* do_when(lambda: not view.is_loading(),
\*         lambda: view.set_viewport_position(position, False))
\* with `rest` the polls of other completions that stay scheduled.
RestoreWhenLoaded(v, position, rest) ==
  LET d == DoWhen(~v.loading)
      called == IF d.call THEN SetViewportPosition(v, position) ELSE v
  IN [called EXCEPT !.pending = IF d.poll THEN Append(rest, position)
                                ELSE rest]

\* GenericDoneMayChange, were the view reverted without regard to its
\* unsaved changes.
GenericDoneMayChange_RevertsDirty(result, loads) ==
  LET res == IF view.file /\ viewDirty THEN DirtyWarning ELSE result
      reverted == [view EXCEPT !.loading = loads, !.reverts = @ + 1,
                               !.dirtyRevert = @ \/ viewDirty]
      v == IF view.file
           THEN RestoreWhenLoaded(reverted, view.position, view.pending)
           ELSE view
  IN [view |-> v, panel |-> IF res = "" THEN panel ELSE Panel(res)]

\* generic_done(result) of a command with may_change_files = True.  The
\* active view being a file: if it is dirty the result is replaced by the
\* warning, else the viewport position is read, the view is reverted
\* (`loads`: it is loading when run_command('revert') returns) and the
\* restore of the position is handed to do_when.  Then the result, unless
\* blank, goes to the panel.
GenericDoneMayChange(result, loads) ==
  LET res == IF view.file /\ viewDirty THEN DirtyWarning ELSE result
      reverted == [view EXCEPT !.loading = loads, !.reverts = @ + 1,
                               !.dirtyRevert = @ \/ viewDirty]
      v == IF view.file /\ ~viewDirty
           THEN RestoreWhenLoaded(reverted, view.position, view.pending)
           ELSE view
  IN [view |-> v, panel |-> IF res = "" THEN panel ELSE Panel(res)]

\* run_command(command, callback, ...) from its first line to its last,
\* for the command c the user issued; `pending` are the polls that stay
\* scheduled.  After do_when the function goes on: it saves the view,
\* substitutes the executable and starts a CommandThread.
RunCommand(c, command0, args, on_done, wd, s, pending) ==
  LET r == RepoRoot(wd)
      root == r.retval
      argv0 == Substitute(command0, s)
  IN /\ Len(threads) < MaxThreads
     /\ repo_root_cache' = r.cache
     /\ walkLog' = WalkLogAfter(wd)
     /\ timers' = IF LockPresent(root)
                  THEN DoWhenSchedule(pending,
                         [cmd |-> c, root |-> root, command0 |-> argv0,
                          args |-> args, on_done |-> on_done, wd |-> wd])
                  ELSE pending
     /\ viewDirty' = IF s.save_first /\ viewDirty THEN FALSE ELSE viewDirty
     /\ threads' = Append(threads,
                     CommandThread(c, argv0, args, on_done, wd,
                                   LockPresent(root)))

\* A command's run(): command = ['repo', args]; self.run_command(command)
CommandRun(args, on_done, wd, s) ==
  /\ RunCommand(Len(cmds) + 1, "repo", args, on_done, wd, s, timers)
  /\ cmds' = Append(cmds, [wd |-> wd, args |-> args,
                           deferred |-> LockPresent(RepoRoot(wd).retval),
                           relocked |-> FALSE, released |-> FALSE])
  /\ UNCHANGED <<now, repoMarker, lastLookup, diskVars, cwd, REPO, view,
                 commands_working, uiQueue, panel>>

\* RepoSyncCommand.run: command = ['repo', 'sync']; self.run_command(command)
Issue(on_done, wd, s) ==
  /\ Len(cmds) < MaxCommands
  /\ CommandRun("sync", on_done, wd, s)

\* SyncRebaseRun, were the rebase left to be started by the completion of
\* the sync: the handler starts the sync alone.
SyncRebaseRun_SyncOnly(wd, s1, s2) ==
  /\ Len(threads) + 2 <= MaxThreads
  /\ CommandRun("sync", "generic_done", wd, s1)

\* RepoSyncRebaseAutostashCommand.run: run_command(['repo', 'sync']) and
\* then, in the same handler, run_command(['repo', 'rebase',
\* '--auto-stash']); s1 and s2 are the settings each call loads.  The second
\* call's repo_root hits the cache entry the first call left, so both see
\* the same root and the same lock; each call that sees the lock schedules
\* its own poll, and each starts its own CommandThread.
SyncRebaseRun(wd, s1, s2) ==
  LET r == RepoRoot(wd)
      root == r.retval
      c == Len(cmds) + 1
      dirty1 == IF s1.save_first /\ viewDirty THEN FALSE ELSE viewDirty
      dirty2 == IF s2.save_first /\ dirty1 THEN FALSE ELSE dirty1
      poll1 == [cmd |-> c, root |-> root, command0 |-> Substitute("repo", s1),
                args |-> "sync", on_done |-> "generic_done", wd |-> wd]
      poll2 == [cmd |-> c, root |-> root, command0 |-> Substitute("repo", s2),
                args |-> "rebase --auto-stash", on_done |-> "generic_done",
                wd |-> wd]
      thread1 == CommandThread(c, Substitute("repo", s1), "sync",
                               "generic_done", wd, LockPresent(root))
      thread2 == CommandThread(c, Substitute("repo", s2),
                               "rebase --auto-stash", "generic_done", wd,
                               LockPresent(root))
  IN /\ Len(threads) + 2 <= MaxThreads
     /\ repo_root_cache' = r.cache
     /\ walkLog' = WalkLogAfter(wd)
     /\ timers' = IF LockPresent(root)
                  THEN DoWhenSchedule(DoWhenSchedule(timers, poll1), poll2)
                  ELSE timers
     /\ viewDirty' = dirty2
     /\ threads' = Append(Append(threads, thread1), thread2)
     /\ cmds' = Append(cmds, [wd |-> wd, args |-> "sync+rebase",
                              deferred |-> LockPresent(root),
                              relocked |-> FALSE, released |-> FALSE])
     /\ UNCHANGED <<now, repoMarker, lastLookup, diskVars, cwd, REPO, view,
                    commands_working, uiQueue, panel>>

RemoveAt(q, k) == [j \in 1..(Len(q) - 1) |-> IF j < k THEN q[j] ELSE q[j + 1]]

\* A 50 ms timer fires: do_when(conditional, self.run_command, command, ...)
\* calls run_command if the conditional holds and schedules itself again
\* if not.
PollFires(k, s) ==
  /\ k \in 1..Len(timers)
  /\ LET tm == timers[k]
         rest == RemoveAt(timers, k)
     IN IF LockGone(tm.root)
        THEN RunCommand(tm.cmd, tm.command0, tm.args, tm.on_done, tm.wd, s,
                        rest)
        ELSE /\ timers' = DoWhenSchedule(rest, tm)
             /\ UNCHANGED <<repo_root_cache, walkLog, viewDirty, threads>>
  /\ UNCHANGED <<now, repoMarker, lastLookup, diskVars, cwd, REPO, view,
                 commands_working, cmds, uiQueue, panel>>

\* The UI thread runs the next task main_thread queued: the callback with
\* the output.
UiRun ==
  /\ uiQueue # << >>
  /\ LET task == Head(uiQueue)
     IN /\ threads' = Delivered(threads, task, "ui")
        /\ IF task.callback = "generic_done"
           THEN /\ panel' = GenericDone(task.output)
                /\ view' = view
           ELSE IF task.callback = "custom.generic_done"
           THEN \E loads \in BOOLEAN :
                  LET r == GenericDoneMayChange(task.output, loads)
                  IN /\ panel' = r.panel
                     /\ view' = r.view
           ELSE /\ panel' = panel
                /\ view' = view
  /\ uiQueue' = Tail(uiQueue)
  /\ UNCHANGED <<rootVars, diskVars, cwd, REPO, viewDirty, commands_working,
                 cmds, timers>>

\* RepoCustomCommand.on_input(command), the user having typed a command:
\* self.run_command(['repo'] + shlex.split(command)); the callback is the
\* generic_done of this command, whose may_change_files is True.
CustomOnInput(wd, s) ==
  /\ Len(cmds) < MaxCommands
  /\ CommandRun("status", "custom.generic_done", wd, s)

\* RepoCustomCommand.on_input(command), the user having typed nothing:
\* self.panel("No repo command provided")
CustomOnInputBlank ==
  /\ panel' = Panel("No repo command provided")
  /\ UNCHANGED <<rootVars, diskVars, cwd, REPO, viewDirty, view,
                 commands_working, cmds, threads, timers, uiQueue>>

\* A 50 ms timer of the viewport restore fires: do_when again.
LoadPollFires(k) ==
  /\ k \in 1..Len(view.pending)
  /\ view' = [RestoreWhenLoaded(view, view.pending[k],
                                RemoveAt(view.pending, k))
                EXCEPT !.waited = @ \/ view.loading]
  /\ UNCHANGED <<rootVars, diskVars, cwd, REPO, viewDirty, commands_working,
                 cmds, threads, timers, uiQueue, panel>>

\* ---------------------------------------------------------- environment
\* The editor finishes reloading the view; the reloaded buffer is shown at
\* some position.
LoadDone(p) ==
  /\ view.loading
  /\ view' = [view EXCEPT !.loading = FALSE, !.position = p]
  /\ UNCHANGED <<rootVars, diskVars, cwd, REPO, viewDirty, commands_working,
                 cmds, threads, timers, uiQueue, panel>>

\* The user scrolls the active view.
ScrollView(p) ==
  /\ p # view.position
  /\ view' = [view EXCEPT !.position = p]
  /\ UNCHANGED <<rootVars, diskVars, cwd, REPO, viewDirty, commands_working,
                 cmds, threads, timers, uiQueue, panel>>

\* The repo tool takes its index lock under a root, and releases it.
CreateLock(d) ==
  /\ d \in repoMarker /\ d \notin indexLock
  /\ indexLock' = indexLock \cup {d}
  /\ cmds' = [c \in DOMAIN cmds |-> [cmds[c] EXCEPT !.relocked = TRUE]]
  /\ UNCHANGED <<rootVars, dirExists, cwd, REPO, viewDirty, view, commands_working,
                 threads, timers, uiQueue, panel>>

RemoveLock(d) ==
  /\ d \in indexLock
  /\ indexLock' = indexLock \ {d}
  /\ cmds' = [c \in DOMAIN cmds |-> [cmds[c] EXCEPT !.released = TRUE]]
  /\ UNCHANGED <<rootVars, dirExists, cwd, REPO, viewDirty, view,
                 commands_working, threads, timers, uiQueue, panel>>

\* The deepest directory is deleted, with what it holds.
DeleteDir(d) ==
  /\ d \in dirExists /\ d # 0
  /\ \A e \in dirExists : e <= d
  /\ dirExists' = dirExists \ {d}
  /\ repoMarker' = repoMarker \ {d}
  /\ indexLock' = indexLock \ {d}
  /\ UNCHANGED <<now, repo_root_cache, walkLog, lastLookup, cmdVars>>

\* The user types into the active view.
EditView ==
  /\ ~viewDirty
  /\ viewDirty' = TRUE
  /\ UNCHANGED <<rootVars, diskVars, cwd, REPO, view, commands_working, cmds,
                 threads, timers, uiQueue, panel>>

\* ------------------------------------------------------- specifications
Init ==
  /\ now = 0
  /\ repoMarker \in SUBSET Dirs
  /\ repo_root_cache = << >>
  /\ walkLog = << >>
  /\ lastLookup = NoLookup
  /\ dirExists = Dirs
  /\ indexLock = {}
  /\ cwd = 0
  /\ REPO \in RepoPaths
  /\ viewDirty = FALSE
  /\ view = NoView
  /\ commands_working = 0
  /\ cmds = << >>
  /\ threads = << >>
  /\ timers = << >>
  /\ uiQueue = << >>
  /\ panel = NoPanel

\* The lock gate: commands issued while the repo tool takes and releases
\* its index lock; every process starts and writes UTF-8 text.
Next ==
  \/ \E on_done \in Callbacks, wd \in Dirs, s \in Settings :
       Issue(on_done, wd, s)
  \/ \E k \in 1..MaxThreads, s \in Settings : PollFires(k, s)
  \/ UiRun
  \/ \E i \in 1..MaxThreads : ThreadStart(i)
  \/ \E i \in 1..MaxThreads : ThreadIncLoad(i)
  \/ \E i \in 1..MaxThreads : ThreadIncStore(i)
  \/ \E i \in 1..MaxThreads : ThreadChdir(i)
  \/ \E i \in 1..MaxThreads : ThreadPopen(i, "ok")
  \/ \E i \in 1..MaxThreads : ThreadCommunicate(i, "utf8_bytes", "")
  \/ \E i \in 1..MaxThreads : ThreadDecLoad(i)
  \/ \E i \in 1..MaxThreads : ThreadDecStore(i)
  \/ \E i \in 1..MaxThreads : ThreadPost(i)
  \/ \E d \in Dirs : CreateLock(d)
  \/ \E d \in Dirs : RemoveLock(d)

Spec == Init /\ [][Next]_vars

\* The command runner: commands issued under a root nobody locks, with no
\* override of the executable; the user
\* edits the view, a process may fail to start, write nothing, text or bytes
\* that cannot be decoded, and the working directory may be deleted at any
\* moment.
InitRun ==
  /\ Init
  /\ repoMarker = {0}

NextRun ==
  \/ \E on_done \in Callbacks, wd \in Dirs, save_first \in BOOLEAN :
       Issue(on_done, wd, [repo_command |-> "", save_first |-> save_first])
  \/ UiRun
  \/ \E i \in 1..MaxThreads : ThreadStart(i)
  \/ \E i \in 1..MaxThreads : ThreadIncLoad(i)
  \/ \E i \in 1..MaxThreads : ThreadIncStore(i)
  \/ \E i \in 1..MaxThreads : ThreadChdir(i)
  \/ \E i \in 1..MaxThreads, outcome \in PopenOutcomes : ThreadPopen(i, outcome)
  \/ \E i \in 1..MaxThreads, bytes \in OutputBytes, fe \in FallbackEncodings :
       ThreadCommunicate(i, bytes, fe)
  \/ \E i \in 1..MaxThreads : ThreadDecLoad(i)
  \/ \E i \in 1..MaxThreads : ThreadDecStore(i)
  \/ \E i \in 1..MaxThreads : ThreadPost(i)
  \/ \E d \in Dirs : DeleteDir(d)
  \/ EditView

SpecRun == InitRun /\ [][NextRun]_vars

\* The sync command end to end: find_repo resolved the executable, no
\* override is configured, the working directory lies under a root nobody
\* locks, and the process starts; it may write nothing, text, or bytes that
\* are not UTF-8.  The scheduler lets every started thread run and the UI
\* thread take the tasks queued for it.
InitSync ==
  /\ Init
  /\ REPO = "/usr/local/bin/repo"
  /\ repoMarker # {}

\* One step of CommandThread i, whichever it is at.
ThreadRuns(i) ==
  \/ ThreadStart(i)
  \/ ThreadIncLoad(i)
  \/ ThreadIncStore(i)
  \/ ThreadChdir(i)
  \/ ThreadPopen(i, "ok")
  \/ \E bytes \in OutputBytes, fe \in FallbackEncodings :
       ThreadCommunicate(i, bytes, fe)
  \/ ThreadDecLoad(i)
  \/ ThreadDecStore(i)
  \/ ThreadPost(i)

\* The user runs the sync command, once, in a directory under a root.
NextSync ==
  \/ \E wd \in Dirs, save_first \in BOOLEAN :
       /\ cmds = << >>
       /\ Walk(wd) # NoRoot
       /\ CommandRun("sync", "generic_done", wd,
                     [repo_command |-> "", save_first |-> save_first])
  \/ \E i \in 1..MaxThreads : ThreadRuns(i)
  \/ UiRun
  \/ EditView

SpecSync ==
  /\ InitSync
  /\ [][NextSync]_vars
  /\ \A i \in 1..MaxThreads : WF_vars(ThreadRuns(i))
  /\ WF_vars(UiRun)

\* Commands in flight together: the user runs sync or rebase from views in
\* any directories while earlier commands are still running; nobody locks
\* the root, every process starts and writes UTF-8 text.
InitPar ==
  /\ Init
  /\ REPO = "/usr/local/bin/repo"
  /\ repoMarker = {0}

\* RepoSyncCommand.run or RepoRebaseCommand.run:
\* command = ['repo', args]; self.run_command(command)
NextPar ==
  \/ \E args \in {"sync", "rebase"}, wd \in Dirs :
       CommandRun(args, "generic_done", wd,
                  [repo_command |-> "", save_first |-> FALSE])
  \/ \E i \in 1..MaxThreads : ThreadStart(i)
  \/ \E i \in 1..MaxThreads : ThreadIncLoad(i)
  \/ \E i \in 1..MaxThreads : ThreadIncStore(i)
  \/ \E i \in 1..MaxThreads : ThreadChdir(i)
  \/ \E i \in 1..MaxThreads : ThreadPopen(i, "ok")
  \/ \E i \in 1..MaxThreads : ThreadCommunicate(i, "utf8_bytes", "")
  \/ \E i \in 1..MaxThreads : ThreadDecLoad(i)
  \/ \E i \in 1..MaxThreads : ThreadDecStore(i)
  \/ \E i \in 1..MaxThreads : ThreadPost(i)
  \/ UiRun

SpecPar == InitPar /\ [][NextPar]_vars

\* The combined command: sync and rebase started by one handler, under a
\* root nobody locks; a process may fail to start, and writes nothing or
\* text.
NextPair ==
  \/ \E wd \in Dirs, save_first \in BOOLEAN :
       SyncRebaseRun(wd, [repo_command |-> "", save_first |-> save_first],
                     [repo_command |-> "", save_first |-> save_first])
  \/ \E i \in 1..MaxThreads : ThreadStart(i)
  \/ \E i \in 1..MaxThreads : ThreadIncLoad(i)
  \/ \E i \in 1..MaxThreads : ThreadIncStore(i)
  \/ \E i \in 1..MaxThreads : ThreadChdir(i)
  \/ \E i \in 1..MaxThreads, outcome \in PopenOutcomes : ThreadPopen(i, outcome)
  \/ \E i \in 1..MaxThreads, bytes \in {"", "utf8_bytes"} :
       ThreadCommunicate(i, bytes, "")
  \/ \E i \in 1..MaxThreads : ThreadDecLoad(i)
  \/ \E i \in 1..MaxThreads : ThreadDecStore(i)
  \/ \E i \in 1..MaxThreads : ThreadPost(i)
  \/ UiRun
  \/ EditView

SpecPair == InitPar /\ [][NextPair]_vars

\* The lock wait: sync commands issued while the repo tool takes and
\* releases its index lock.  The threads run_command starts are left where
\* they start: no step of a CommandThread reads or writes a timer, the lock
\* or the command history.
NextWait ==
  \/ \E on_done \in Callbacks, wd \in Dirs, s \in Settings :
       Issue(on_done, wd, s)
  \/ \E k \in 1..MaxThreads, s \in Settings : PollFires(k, s)
  \/ \E d \in Dirs : CreateLock(d)
  \/ \E d \in Dirs : RemoveLock(d)

SpecWait == Init /\ [][NextWait]_vars

\* The custom command: the user types a command, or nothing, into the input
\* panel; the command's process starts and writes nothing or text; its
\* completion reloads the active view, which the user edits and scrolls
\* meanwhile.  The active view is a file or not; the working directory is
\* the window's folder, "/".
InitCustom ==
  /\ now = 0
  /\ repoMarker = {0}
  /\ repo_root_cache = << >>
  /\ walkLog = << >>
  /\ lastLookup = NoLookup
  /\ dirExists = Dirs
  /\ indexLock = {}
  /\ cwd = 0
  /\ REPO = "/usr/local/bin/repo"
  /\ viewDirty = FALSE
  /\ view \in {[NoView EXCEPT !.file = f] : f \in BOOLEAN}
  /\ commands_working = 0
  /\ cmds = << >>
  /\ threads = << >>
  /\ timers = << >>
  /\ uiQueue = << >>
  /\ panel = NoPanel

NextCustom ==
  \/ \E save_first \in BOOLEAN :
       CustomOnInput(0, [repo_command |-> "", save_first |-> save_first])
  \/ CustomOnInputBlank
  \/ \E i \in 1..MaxThreads : ThreadStart(i)
  \/ \E i \in 1..MaxThreads : ThreadIncLoad(i)
  \/ \E i \in 1..MaxThreads : ThreadIncStore(i)
  \/ \E i \in 1..MaxThreads : ThreadChdir(i)
  \/ \E i \in 1..MaxThreads : ThreadPopen(i, "ok")
  \/ \E i \in 1..MaxThreads, bytes \in {"", "utf8_bytes"} :
       ThreadCommunicate(i, bytes, "")
  \/ \E i \in 1..MaxThreads : ThreadDecLoad(i)
  \/ \E i \in 1..MaxThreads : ThreadDecStore(i)
  \/ \E i \in 1..MaxThreads : ThreadPost(i)
  \/ UiRun
  \/ \E k \in 1..MaxThreads : LoadPollFires(k)
  \/ \E p \in Positions : LoadDone(p)
  \/ \E p \in Positions : ScrollView(p)
  \/ EditView

SpecCustom == InitCustom /\ [][NextCustom]_vars

\* ----------------------------------------------------------------- claims
\* The CommandThread objects started for the command c the user issued.
Spawned(c) == {i \in DOMAIN threads : threads[i].cmd = c}

\* A do_when poll of command c is scheduled.
Polling(c) == \E k \in DOMAIN timers : timers[k].cmd = c

\* The completion task of thread i waits in the UI thread's queue.
Queued(i) == \E k \in DOMAIN uiQueue : uiQueue[k].tid = i

\* Thread i has ended and the UI thread has run whatever it scheduled.
Finished(i) == threads[i].pc = "done" /\ ~Queued(i)

\* C1: no CommandThread is started for a command while index.lock exists
\* under the root run_command detected (wait_for_lock being on).
C1_NoThreadWhileLocked ==
  \A i \in DOMAIN threads : ~threads[i].lockAtStart

\* C2: a command issued while the lock existed, whose lock went away and
\* was never taken again, has been given exactly one CommandThread once its
\* poll is no longer scheduled.
C2_DeferredRunsExactlyOnce ==
  \A c \in DOMAIN cmds :
    (cmds[c].deferred /\ ~cmds[c].relocked /\ ~Polling(c))
      => Cardinality(Spawned(c)) = 1

\* C3: when Popen fails with "no such file" for the bare name 'repo' (no
\* override, no resolved path), the thread's outcome goes to the error
\* dialog, once, and never to the result callback.
C3_NotFoundToDialogOnce ==
  \A i \in DOMAIN threads :
    (threads[i].launch = "ENOENT" /\ threads[i].command0 = "repo")
      => /\ threads[i].callback = "error_message"
         /\ threads[i].output = "binary_not_found_message"
         /\ threads[i].results = 0
         /\ threads[i].dialogs <= 1
         /\ Finished(i) => threads[i].dialogs = 1

C3_Witness ==
  \E i \in DOMAIN threads :
    /\ threads[i].launch = "ENOENT" /\ threads[i].command0 = "repo"
    /\ Finished(i) /\ threads[i].dialogs = 1

\* C4, as claimed: when Popen fails with another OS error, the error's
\* message goes to the result callback and no dialog is shown.
C4_OtherErrorToResultCallback ==
  \A i \in DOMAIN threads :
    (threads[i].launch = "EACCES" /\ Finished(i))
      => /\ threads[i].output = "strerror"
         /\ threads[i].results = 1
         /\ threads[i].dialogs = 0

\* C4, amended: when Popen fails with another OS error, the error's message
\* is the output, and it goes to the error dialog, once, and never to the
\* result callback.
C4_OtherErrorToDialog ==
  \A i \in DOMAIN threads :
    threads[i].launch = "EACCES"
      => /\ threads[i].callback = "error_message"
         /\ threads[i].output = "strerror"
         /\ threads[i].results = 0
         /\ threads[i].dialogs <= 1
         /\ Finished(i) => threads[i].dialogs = 1

C4_Witness ==
  \E i \in DOMAIN threads :
    threads[i].launch = "EACCES" /\ Finished(i) /\ threads[i].dialogs = 1

\* C5: a thread whose working directory does not exist when it checks ends
\* at once: no callback scheduled, no exception, no process, and the
\* in-flight counter never touched.
C5_MissingDirEndsSilently ==
  \A i \in DOMAIN threads :
    threads[i].aborted
      => /\ threads[i].pc = "done"
         /\ threads[i].posted = 0
         /\ threads[i].dialogs = 0 /\ threads[i].results = 0
         /\ ~threads[i].raised
         /\ threads[i].launch = "none"
         /\ threads[i].incs = 0 /\ threads[i].decs = 0

C5_Witness ==
  \E i \in DOMAIN threads :
    /\ threads[i].aborted /\ threads[i].pc = "done"
    /\ threads[i].working_dir \notin dirExists
    /\ commands_working = 0 /\ uiQueue = << >>

\* C6: a thread that passed the working-directory check schedules its
\* completion callback exactly once by the time it ends, whatever happened,
\* and never more than once; the result callback and the dialog never both
\* run for it.
C6_OneCallbackPerThread ==
  \A i \in DOMAIN threads :
    /\ threads[i].posted <= 1
    /\ (threads[i].pc = "done" /\ ~threads[i].aborted) => threads[i].posted = 1
    /\ threads[i].dialogs + threads[i].results <= threads[i].posted

C6_Witness ==
  \E i \in DOMAIN threads :
    /\ threads[i].raised /\ Finished(i)
    /\ threads[i].posted = 1 /\ threads[i].results = 1

\* C7: a completion callback runs on the UI thread only, and only as a task
\* that main_thread scheduled before.
C7_CallbackOnUiThreadOnly ==
  \A i \in DOMAIN threads :
    /\ threads[i].ranOn \in {"none", "ui"}
    /\ (threads[i].dialogs + threads[i].results > 0)
         => (threads[i].posted = 1 /\ ~Queued(i))

C7_Witness ==
  \E i \in DOMAIN threads :
    /\ threads[i].ranOn = "ui" /\ threads[i].results = 1
    /\ panel.content = <<threads[i].output>> /\ panel.visible

\* C8: a thread that incremented the in-flight counter decrements it
\* exactly once before it ends, on every outcome; it increments at most
\* once, and never decrements without having incremented.
C8_IncrementMatchedByDecrement ==
  \A i \in DOMAIN threads :
    /\ threads[i].incs <= 1
    /\ threads[i].decs <= threads[i].incs
    /\ threads[i].pc \in {"post", "done"} => threads[i].decs = threads[i].incs
    /\ threads[i].pc \in {"chdir", "popen", "communicate", "dec_load",
                          "dec_store"} => threads[i].incs = 1

C8_Witness ==
  \E i \in DOMAIN threads :
    /\ threads[i].launch = "chdir" /\ threads[i].pc = "done"
    /\ threads[i].incs = 1 /\ threads[i].decs = 1
    /\ commands_working = 0

\* C9: a lookup of d made less than 5 seconds after the walk that created
\* d's cache entry returns the cached value, a cached False included, and
\* does not look at the disk.
C9_CacheHitSkipsWalk ==
  (/\ lastLookup.n > 0
   /\ lastLookup.hadEntry
   /\ lastLookup.at < lastLookup.prevWalkAt + TTL)
    => /\ ~lastLookup.walked
       /\ lastLookup.retval = lastLookup.prevRetval

C9_Witness ==
  /\ lastLookup.n > 0 /\ lastLookup.hadEntry
  /\ lastLookup.at < lastLookup.prevWalkAt + TTL
  /\ ~lastLookup.walked
  /\ lastLookup.retval = NoRoot
  /\ lastLookup.truth # NoRoot

\* C10: the value a lookup returns is the one a walk made for that
\* directory found at most 5 seconds earlier; a cache hit leaves the entry's
\* expiry as it was; a lookup with no entry, or at or after the entry's
\* expiry, walks and returns what the disk holds at that moment.
C10_ValueNeverOlderThanTTL ==
  lastLookup.n > 0
    => /\ lastLookup.retval = lastLookup.walkVal
       /\ lastLookup.at - lastLookup.walkAt <= TTL
       /\ ~lastLookup.walked => lastLookup.newExpires = lastLookup.prevExpires
       /\ (~lastLookup.hadEntry \/ lastLookup.at >= lastLookup.prevExpires)
            => (lastLookup.walked /\ lastLookup.retval = lastLookup.truth)

C10_Witness ==
  /\ lastLookup.n > 0 /\ lastLookup.hadEntry
  /\ lastLookup.at >= lastLookup.prevExpires
  /\ lastLookup.walked
  /\ lastLookup.retval # lastLookup.prevRetval

\* The directories at or above d that hold the marker now, and the nearest
\* of them (the deepest), False when there is none.
MarkedAbove(d) == {e \in Dirs : e <= d /\ e \in repoMarker}

Nearest(d) ==
  IF MarkedAbove(d) = {} THEN NoRoot
  ELSE CHOOSE e \in MarkedAbove(d) : \A f \in MarkedAbove(d) : f <= e

\* C11: a lookup that walks returns the nearest directory at or above its
\* input that holds the marker, and False exactly when no directory from the
\* input up to "/" holds it.
C11_WalkFindsNearestMarker ==
  [][\A d \in LookupDirs :
       (/\ lastLookup'.n = lastLookup.n + 1
        /\ lastLookup'.dir = d
        /\ lastLookup'.walked)
         => /\ lastLookup'.retval = Nearest(d)
            /\ (lastLookup'.retval = NoRoot) <=> (MarkedAbove(d) = {})]_vars

C11_Witness ==
  /\ lastLookup.n > 0 /\ lastLookup.walked
  /\ lastLookup.dir = 1 /\ lastLookup.retval = 0

\* Thread i's process wrote output that decoded to text which is not blank,
\* and the callback carrying it has not run yet.
TextPending(i) ==
  /\ Running(i)
  /\ threads[i].pc \in {"dec_load", "dec_store", "post", "done"}
  /\ threads[i].launch = "ok" /\ ~threads[i].raised
  /\ threads[i].results = 0

\* Thread i has started its process.
Launched(i) == Running(i) /\ threads[i].launch = "ok"

\* The panel shows thread i's output.
PanelShows(i) ==
  /\ Running(i)
  /\ panel.content = <<threads[i].output>>
  /\ panel.visible

\* C12, as claimed: once the sync command's thread has ended and the UI
\* thread has run its callback, the process's output is in the panel and
\* the panel is shown.
C12_SyncOutputAlwaysShown ==
  \A i \in DOMAIN threads : Finished(i) => PanelShows(i)

\* C12, amended: the sync command gets exactly one thread, with argv
\* [REPO, "sync"]; its process is started, once; and if its output decodes
\* to text that is not blank, that text is eventually in the panel and the
\* panel is shown.  Blank output never reaches the panel.
C12_SyncRunsOnceAndShowsText ==
  /\ [](\A c \in DOMAIN cmds :
          /\ Cardinality(Spawned(c)) = 1
          /\ \A i \in Spawned(c) :
               /\ threads[i].command0 = "/usr/local/bin/repo"
               /\ threads[i].args = "sync"
               /\ (threads[i].output = "" /\ Finished(i))
                    => ~panel.visible)
  /\ \A i \in 1..MaxThreads :
       /\ Running(i) ~> Launched(i)
       /\ TextPending(i) ~> PanelShows(i)

C12_Witness ==
  \E i \in DOMAIN threads :
    /\ Finished(i) /\ threads[i].output = "utf8_text"
    /\ threads[i].command0 = "/usr/local/bin/repo" /\ threads[i].args = "sync"
    /\ panel.content = <<"utf8_text">> /\ panel.read_only /\ panel.visible

\* The UI thread runs the generic_done of a may_change_files command.
DeliversCustom ==
  /\ uiQueue # << >>
  /\ Head(uiQueue).callback = "custom.generic_done"
  /\ uiQueue' = Tail(uiQueue)

\* C13: when a may_change_files command completes and the active view is a
\* file with unsaved changes, no revert is issued and the warning is what
\* the panel shows; a revert is only ever issued for a view that is not
\* dirty.
C13_DirtyViewIsNeverReverted ==
  /\ [](~view.dirtyRevert)
  /\ [][(DeliversCustom /\ view.file /\ viewDirty)
          => /\ view'.reverts = view.reverts
             /\ view'.loading = view.loading
             /\ panel'.content = <<DirtyWarning>>
             /\ panel'.visible]_vars
  /\ [][(view'.reverts # view.reverts)
          => (DeliversCustom /\ view.file /\ ~viewDirty)]_vars

C13_Witness ==
  /\ viewDirty /\ view.file /\ view.reverts = 0
  /\ panel.content = <<DirtyWarning>> /\ panel.visible
  /\ \E i \in DOMAIN threads :
       /\ Finished(i) /\ threads[i].results = 1
       /\ threads[i].on_done = "custom.generic_done"
       /\ threads[i].output = "utf8_text"

\* C14: once panel(output) has been called, whatever was called before,
\* the panel holds exactly the output of the latest call, is read-only and
\* has been shown.
C14_PanelHoldsLatestOutput ==
  panel.called
    => /\ panel.content = <<panel.last>>
       /\ panel.read_only
       /\ panel.visible

C14_Witness ==
  /\ panel.content = <<"No repo command provided">>
  /\ panel.read_only /\ panel.visible
  /\ \E i \in DOMAIN threads :
       /\ Finished(i) /\ threads[i].results = 1
       /\ threads[i].output = "utf8_text"

\* C20: every do_when of the viewport restore calls its callback exactly
\* once: it is either still polling or has restored, never both and never
\* twice; a poll that finds the view loading restores nothing and stays
\* scheduled; the first poll that finds it loaded restores the position
\* read before the revert and schedules no further poll.
C20_RestoreExactlyOnceWhenLoaded ==
  /\ [](/\ view.restores + Len(view.pending) = view.reverts
         /\ ~view.earlyRestore)
  /\ [][\A k \in 1..MaxThreads :
          (k <= Len(view.pending) /\ LoadPollFires(k))
            => IF view.loading
               THEN /\ view'.restores = view.restores
                    /\ view'.position = view.position
                    /\ Len(view'.pending) = Len(view.pending)
               ELSE /\ view'.restores = view.restores + 1
                    /\ view'.position = view.pending[k]
                    /\ Len(view'.pending) = Len(view.pending) - 1]_vars

C20_Witness ==
  /\ view.waited /\ ~view.loading
  /\ view.reverts = 1 /\ view.restores = 1 /\ view.pending = << >>
  /\ view.position = 1

\* C15: when the process has written bytes that are not UTF-8 and the
\* caller supplied a fallback encoding in which they are valid, the
\* thread's output is their decoding with the fallback; when it has written
\* UTF-8 the output is the UTF-8 decoding whatever the fallback is, the
\* unset one included, which no decode could use; and the output is what
\* the callback is given.
C15_DecodeFallsBack ==
  /\ [][\A i \in 1..MaxThreads, fe \in FallbackEncodings :
          /\ (Running(i) /\ fe # "" /\ ThreadCommunicate(i, "latin_bytes", fe))
               => /\ threads'[i].output = "fallback_text"
                  /\ ~threads'[i].raised
          /\ (Running(i) /\ ThreadCommunicate(i, "utf8_bytes", fe))
               => /\ threads'[i].output = "utf8_text"
                  /\ ~threads'[i].raised]_vars
  /\ [](\A k \in DOMAIN uiQueue :
          /\ uiQueue[k].output = threads[uiQueue[k].tid].output
          /\ uiQueue[k].callback = threads[uiQueue[k].tid].callback)

C15_Witness ==
  \E i \in DOMAIN threads :
    /\ threads[i].output = "fallback_text" /\ ~threads[i].raised
    /\ Finished(i) /\ threads[i].results = 1
    /\ panel.content = <<"fallback_text">>

\* C16: every process is started in the working directory of its own
\* invocation, whatever the other command threads do meanwhile.
C16_ProcessRunsInOwnDirectory ==
  \A i \in DOMAIN threads :
    threads[i].launch = "ok" => threads[i].procCwd = threads[i].working_dir

\* The command threads that have incremented the counter and not yet
\* decremented it.
InFlight == {i \in DOMAIN threads : threads[i].incs > threads[i].decs}

\* C17: the in-flight counter equals the number of command threads that
\* have incremented and not yet decremented it; it is never negative, and
\* it is zero whenever no command thread is executing.
C17_CounterCountsInFlight ==
  /\ commands_working = Cardinality(InFlight)
  /\ commands_working >= 0
  /\ (\A i \in DOMAIN threads : threads[i].pc \in {"start", "done"})
       => commands_working = 0

\* C18: the combined command starts the sync thread and the rebase thread
\* in one handler, neither waiting for the other: whenever threads are
\* started, they are these two, both not yet running; and nothing orders
\* their processes or their callbacks afterwards (the witness: the rebase
\* completed and its callback ran while the sync process was still running).
C18_SyncAndRebaseStartedTogether ==
  [][Len(threads') # Len(threads)
       => LET n == Len(threads)
          IN /\ Len(threads') = n + 2
             /\ threads'[n + 1].args = "sync"
             /\ threads'[n + 2].args = "rebase --auto-stash"
             /\ threads'[n + 1].pc = "start" /\ threads'[n + 2].pc = "start"
             /\ threads'[n + 1].cmd = threads'[n + 2].cmd]_vars

\* The other order is reachable too: the sync's callback ran while the
\* rebase process was still running.
C18_SyncFirst ==
  \E i, j \in DOMAIN threads :
    /\ threads[i].cmd = threads[j].cmd
    /\ threads[i].args = "sync" /\ threads[j].args = "rebase --auto-stash"
    /\ threads[j].pc = "communicate"
    /\ threads[i].launch = "ok" /\ Finished(i) /\ threads[i].results = 1

C18_Witness ==
  \E i, j \in DOMAIN threads :
    /\ threads[i].cmd = threads[j].cmd
    /\ threads[i].args = "sync" /\ threads[j].args = "rebase --auto-stash"
    /\ threads[i].pc = "communicate"
    /\ threads[j].launch = "ok" /\ Finished(j) /\ threads[j].results = 1

\* The polls scheduled for command c.
PollsOf(c) == {k \in DOMAIN timers : timers[k].cmd = c}

\* C19: as long as the lock that deferred a command has not been released,
\* exactly one poll of that command is scheduled; a poll that finds the
\* lock calls nothing (no run_command, no thread) and is scheduled again,
\* however often that has happened before.
C19_LockWaitKeepsOnePoll ==
  /\ [](\A c \in DOMAIN cmds :
          (cmds[c].deferred /\ ~cmds[c].released)
            => Cardinality(PollsOf(c)) = 1)
  /\ [][\A k \in 1..MaxThreads :
          (/\ k <= Len(timers)
           /\ timers[k].root \in indexLock
           /\ \E s \in Settings : PollFires(k, s))
            => /\ threads' = threads
               /\ Len(timers') = Len(timers)
               /\ timers'[Len(timers')] = timers[k]]_vars

C19_Witness ==
  \E c \in DOMAIN cmds :
    /\ cmds[c].deferred /\ ~cmds[c].released
    /\ Cardinality(PollsOf(c)) = 1
    /\ \E k \in PollsOf(c) : timers[k].root \in indexLock
    /\ Len(timers) = Len(cmds)

====
